---- MODULE Spec2Model ----
(***************************************************************************)
(* Callback reliability subsystem of litestar-sendparcel: the retry store  *)
(* (contrib/sqlalchemy/retry_store.py), the backoff scheduler and the      *)
(* due-retry processor (retry.py) and the callback ingress                 *)
(* (routes/callbacks.py).                                                  *)
(*                                                                         *)
(* Time is an integer number of seconds.  The external collaborator        *)
(* (sendparcel.flow.ShipmentFlow.handle_callback) is a nondeterministic    *)
(* choice among returning and raising.  process_due_retries is an async    *)
(* function: an invocation is a sequence of steps, one for the             *)
(* get_due_retries call and one per record of the batch, and invocations   *)
(* of different workers interleave between those steps.  The example's     *)
(* delivery simulator (example/delivery_sim.py) is modelled apart, in      *)
(* SpecSim.                                                                *)
(***************************************************************************)
EXTENDS Integers, Sequences, FiniteSets, TLC

VARIABLES
    now,          \* wall clock, datetime.now(tz=UTC)
    config,       \* SendparcelConfig
    retry_store,  \* the retry_store dependency: "none" or "sqlalchemy"
    backoff,      \* SQLAlchemyRetryStore._backoff_seconds
    store,        \* table sendparcel_callback_retries, row i has id i
    shipments,    \* table sendparcel_shipments
    proc,         \* per worker: the running process_due_retries invocation
    response,     \* what the last ingress call gave its caller
    hist,         \* per retry record: the call that made it, its replays
    session,      \* per worker: the AsyncSession of a mark_failed call in progress
    sim_state     \* example/delivery_sim.py: _sim_state, NULL for a missing key

vars == <<now, config, retry_store, backoff, store, shipments, proc, response, hist,
          session, sim_state>>

----
\* Bounds of the model

MaxTime == 3
MaxRecords == 2
MaxLimit == 2
MaxConcurrentRecords == 1
\* the specifications that follow a single retry record
MaxSingleRecords == 1
MaxSingleTime == 2
\* the inputs compute_next_retry_at is tabulated for
MaxAttempt == 6
MaxBackoffSeconds == 10

MaxAttemptsChoices == {1, 3}
BackoffChoices == {0, 1}
Workers == {"w1", "w2"}

ShipmentIds == {"s1"}
UnknownShipmentId == "s9"
ProviderSlugs == {"dhl", "ups"}
\* the bodies and headers of the callbacks that arrive
Callbacks == {[payload |-> "pA", headers |-> "hA"], [payload |-> "pB", headers |-> "hB"]}

NULL == "null"
NoShipment == [provider |-> NULL, status |-> NULL]

----
\* retry.py

\* (variant: the delay grows linearly)
compute_next_retry_at_linear(attempt, backoff_seconds, clock) ==
    clock + backoff_seconds * attempt

\* compute_next_retry_at: now + backoff_seconds * 2^(attempt - 1)
compute_next_retry_at(attempt, backoff_seconds, clock) ==
    clock + backoff_seconds * (2 ^ (attempt - 1))

----
\* contrib/sqlalchemy/retry_store.py: each operation as a function of the table

HasRow(st, retry_id) == retry_id \in 1..Len(st)

\* (variant: shipment_id and provider_slug stored in each other's column)
store_failed_callback_swapped(st, shipment_id, provider_slug, payload, headers, backoff_seconds, clock) ==
    Append(st, [id            |-> Len(st) + 1,
                shipment_id   |-> provider_slug,
                provider_slug |-> shipment_id,
                payload       |-> payload,
                headers       |-> headers,
                attempts      |-> 0,
                next_retry_at |-> compute_next_retry_at(1, backoff_seconds, clock),
                last_error    |-> NULL,
                status        |-> "pending",
                created_at    |-> clock])

\* (variant: the new record is due at once)
store_failed_callback_due_at_once(st, shipment_id, provider_slug, payload, headers, backoff_seconds, clock) ==
    Append(st, [id            |-> Len(st) + 1,
                shipment_id   |-> shipment_id,
                provider_slug |-> provider_slug,
                payload       |-> payload,
                headers       |-> headers,
                attempts      |-> 0,
                next_retry_at |-> clock,
                last_error    |-> NULL,
                status        |-> "pending",
                created_at    |-> clock])

store_failed_callback(st, shipment_id, provider_slug, payload, headers, backoff_seconds, clock) ==
    Append(st, [id            |-> Len(st) + 1,
                shipment_id   |-> shipment_id,
                provider_slug |-> provider_slug,
                payload       |-> payload,
                headers       |-> headers,
                attempts      |-> 0,
                next_retry_at |-> compute_next_retry_at(1, backoff_seconds, clock),
                last_error    |-> NULL,
                status        |-> "pending",
                created_at    |-> clock])

\* (variant: the status is not looked at)
DueIds_any_status(st, clock) ==
    {i \in 1..Len(st) : st[i].next_retry_at <= clock}

\* WHERE status = 'pending' AND next_retry_at <= now
DueIds(st, clock) ==
    {i \in 1..Len(st) : st[i].status = "pending" /\ st[i].next_retry_at <= clock}

RetryDict(r) ==
    [id |-> r.id, shipment_id |-> r.shipment_id, provider_slug |-> r.provider_slug,
     payload |-> r.payload, headers |-> r.headers, attempts |-> r.attempts]

MinOf(a, b) == IF a <= b THEN a ELSE b

\* ORDER BY next_retry_at ASC LIMIT limit: every list the query may return
\* (rows with equal next_retry_at come in any order)
DueOrders(st, clock, limit) ==
    LET due == DueIds(st, clock)
        n   == MinOf(limit, Cardinality(due))
    IN  {q \in [1..n -> due] :
            /\ \A i, j \in 1..n : i < j =>
                   /\ q[i] # q[j]
                   /\ st[q[i]].next_retry_at <= st[q[j]].next_retry_at
            /\ \A d \in due \ {q[i] : i \in 1..n} :
                   \A i \in 1..n : st[q[i]].next_retry_at <= st[d].next_retry_at}

get_due_retries(st, clock, limit) ==
    {[i \in 1..Len(q) |-> RetryDict(st[q[i]])] : q \in DueOrders(st, clock, limit)}

\* (variant: every call counts an attempt)
mark_succeeded_counts_attempt(st, retry_id) ==
    IF HasRow(st, retry_id)
    THEN [st EXCEPT ![retry_id].status = "succeeded", ![retry_id].attempts = @ + 1]
    ELSE st

\* (variant: a succeeded record has its attempts cleared)
mark_succeeded_resets_attempts(st, retry_id) ==
    IF HasRow(st, retry_id)
    THEN [st EXCEPT ![retry_id].status = "succeeded", ![retry_id].attempts = 0]
    ELSE st

mark_succeeded(st, retry_id) ==
    IF HasRow(st, retry_id)
    THEN [st EXCEPT ![retry_id].status = "succeeded"]
    ELSE st

\* (variant: attempts is not incremented)
mark_failed_same_attempts(st, retry_id, error, backoff_seconds, clock) ==
    IF HasRow(st, retry_id)
    THEN [st EXCEPT ![retry_id].last_error = error,
                    ![retry_id].next_retry_at =
                        compute_next_retry_at(st[retry_id].attempts + 1,
                                              backoff_seconds, clock),
                    ![retry_id].status = "pending"]
    ELSE st

\* (variant: the new attempts value itself is the attempt number)
mark_failed_attempt_is_attempts(st, retry_id, error, backoff_seconds, clock) ==
    IF HasRow(st, retry_id)
    THEN [st EXCEPT ![retry_id].attempts = @ + 1,
                    ![retry_id].last_error = error,
                    ![retry_id].next_retry_at =
                        compute_next_retry_at(st[retry_id].attempts + 1,
                                              backoff_seconds, clock),
                    ![retry_id].status = "pending"]
    ELSE st

\* (variant: the record is rescheduled for the clock reading itself)
mark_failed_due_at_once(st, retry_id, error, backoff_seconds, clock) ==
    IF HasRow(st, retry_id)
    THEN [st EXCEPT ![retry_id].attempts = @ + 1,
                    ![retry_id].last_error = error,
                    ![retry_id].next_retry_at = clock,
                    ![retry_id].status = "pending"]
    ELSE st

mark_failed(st, retry_id, error, backoff_seconds, clock) ==
    IF HasRow(st, retry_id)
    THEN [st EXCEPT ![retry_id].attempts = @ + 1,
                    ![retry_id].last_error = error,
                    ![retry_id].next_retry_at =
                        compute_next_retry_at(st[retry_id].attempts + 1 + 1,
                                              backoff_seconds, clock),
                    ![retry_id].status = "pending"]
    ELSE st

\* (variant: a dead-lettered record gives up its payload)
mark_exhausted_clears_payload(st, retry_id) ==
    IF HasRow(st, retry_id)
    THEN [st EXCEPT ![retry_id].status = "exhausted", ![retry_id].payload = NULL]
    ELSE st

\* (variant: dead-lettering counts the attempt)
mark_exhausted_counts_attempt(st, retry_id) ==
    IF HasRow(st, retry_id)
    THEN [st EXCEPT ![retry_id].status = "exhausted", ![retry_id].attempts = @ + 1]
    ELSE st

mark_exhausted(st, retry_id) ==
    IF HasRow(st, retry_id)
    THEN [st EXCEPT ![retry_id].status = "exhausted"]
    ELSE st

----
\* contrib/sqlalchemy/repository.py and the external collaborator

\* get_by_id raises KeyError when the row is absent
KeyError(sh, shipment_id) ==
    IF shipment_id \in DOMAIN sh THEN sh[shipment_id] = NoShipment ELSE TRUE

\* what ShipmentFlow.handle_callback may do: return, or raise one of these
FlowErrors == {"InvalidCallbackError", "CommunicationError", "InvalidTransitionError"}
\* the exceptions a replay is made to raise: a transient and a permanent one
ReplayErrors == {"CommunicationError", "InvalidCallbackError"}

\* str(exc)
ErrorText(exc) ==
    CASE exc = "InvalidCallbackError"   -> "Invalid token"
      [] exc = "CommunicationError"     -> "provider unreachable"
      [] exc = "InvalidTransitionError" -> "invalid transition"
      [] OTHER                          -> exc

\* a callback that is applied moves the shipment on
ApplyCallback(sh, shipment_id) ==
    [sh EXCEPT ![shipment_id].status = "in_transit"]

----
\* exceptions.py

\* (variant: no handler of its own for InvalidTransitionError, which then
\* falls to the SendParcelException handler)
StatusCode_without_transition_handler(exc) ==
    CASE exc = "CommunicationError"     -> 502
      [] exc = "InvalidCallbackError"   -> 400
      [] exc = "InvalidTransitionError" -> 400
      [] exc = "ShipmentNotFoundError"  -> 404
      [] OTHER                          -> 500

StatusCode(exc) ==
    CASE exc = "CommunicationError"     -> 502
      [] exc = "InvalidCallbackError"   -> 400
      [] exc = "InvalidTransitionError" -> 409
      [] exc = "ShipmentNotFoundError"  -> 404
      [] OTHER                          -> 500

----
\* retry.py: enqueue_callback_retry, as a function of the table

\* (variant: nothing is stored when the configuration has retries switched off)
enqueue_callback_retry_if_enabled(configured, st, provider_slug, shipment_id, payload, headers, backoff_seconds, clock) ==
    IF configured = "none" \/ ~config.retry_enabled
    THEN st
    ELSE store_failed_callback(st, shipment_id, provider_slug, payload, headers,
                               backoff_seconds, clock)

\* (variant: nothing is stored)
enqueue_callback_retry_dropped(configured, st, provider_slug, shipment_id, payload, headers, backoff_seconds, clock) ==
    st

enqueue_callback_retry(configured, st, provider_slug, shipment_id, payload, headers, backoff_seconds, clock) ==
    IF configured = "none"
    THEN st
    ELSE store_failed_callback(st, shipment_id, provider_slug, payload, headers,
                               backoff_seconds, clock)

----
\* the state after construction

\* a worker between invocations: pc "idle", with processed the value the last
\* invocation returned, or raised the exception it ended with
\* the shipments the example's simulator is asked about
SimShipmentIds == {"1", "2", "3"}

\* no session open; an open one holds the id asked for, the error text, the
\* outcome of the replay behind the call, and rows = <<the row as session.get
\* loaded it, the row as the assignments left it>>
NoSession == [retry_id |-> 0, error |-> NULL, outcome |-> NULL, rows |-> <<>>]

Idle == [pc |-> "idle", batch |-> <<>>, processed |-> 0, raised |-> NULL]

\* what an ingress call gave its caller: the status code, the exception behind
\* it (NULL for none), the "detail" of the error body (str(exc)), and the id of
\* the retry record the call made (0 for none)
NoResponse == [code |-> 0, error |-> NULL, detail |-> NULL, enqueued |-> 0]

Init ==
    /\ now = 0
    /\ config \in [retry_max_attempts : MaxAttemptsChoices]
    /\ retry_store \in {"none", "sqlalchemy"}
    /\ backoff \in BackoffChoices
    /\ store = <<>>
    /\ shipments = [s \in ShipmentIds |->
                       [provider |-> "dhl", status |-> "label_ready"]]
    /\ proc = [w \in Workers |-> Idle]
    /\ response = NoResponse
    /\ hist = <<>>
    /\ session = [w \in Workers |-> NoSession]
    /\ sim_state = [sid \in SimShipmentIds |-> NULL]

----
\* routes/callbacks.py: CallbackController.handle_callback, one whole call

Request(provider_slug, shipment_id, payload, headers) ==
    [provider_slug |-> provider_slug, shipment_id |-> shipment_id,
     payload |-> payload, headers |-> headers]

\* a record's last replay: the attempts value read, the shipment looked up and
\* the payload and headers given to the collaborator, how it ended, the store
\* calls made
NoArgs == [shipment_id |-> NULL, payload |-> NULL, headers |-> NULL]

NoReplay == [attempts |-> -1, args |-> NoArgs, outcome |-> NULL, calls |-> <<>>]

NewHist(req) ==
    [request |-> req, fails |-> 0, oks |-> 0, missing |-> 0, last |-> NoReplay]

\* str(ShipmentNotFoundError(shipment_id)), kept as the id it quotes
NotFoundText(shipment_id) == shipment_id

SlugMismatchText == "Provider slug mismatch"

\* the handler registered for the exception class builds the error response
Raise(exc, detail) ==
    [code |-> StatusCode(exc), error |-> exc, detail |-> detail, enqueued |-> 0]

\* repository.get_by_id raises KeyError
CallbackShipmentNotFound(provider_slug, shipment_id) ==
    /\ KeyError(shipments, shipment_id)
    /\ response' = Raise("ShipmentNotFoundError", NotFoundText(shipment_id))
    /\ UNCHANGED <<now, config, retry_store, backoff, store, shipments, proc, hist, session, sim_state>>

\* (variant: the callback is applied before the provider slug is compared)
CallbackProviderMismatch_applies(provider_slug, shipment_id) ==
    /\ ~KeyError(shipments, shipment_id)
    /\ shipments[shipment_id].provider # provider_slug
    /\ shipments' = ApplyCallback(shipments, shipment_id)
    /\ response' = Raise("InvalidCallbackError", SlugMismatchText)
    /\ UNCHANGED <<now, config, retry_store, backoff, store, proc, hist, session, sim_state>>

\* str(shipment.provider) != provider_slug
CallbackProviderMismatch(provider_slug, shipment_id) ==
    /\ ~KeyError(shipments, shipment_id)
    /\ shipments[shipment_id].provider # provider_slug
    /\ response' = Raise("InvalidCallbackError", SlugMismatchText)
    /\ UNCHANGED <<now, config, retry_store, backoff, store, shipments, proc, hist, session, sim_state>>

CallbackAccepted(provider_slug, shipment_id) ==
    /\ ~KeyError(shipments, shipment_id)
    /\ shipments[shipment_id].provider = provider_slug
    /\ shipments' = ApplyCallback(shipments, shipment_id)
    /\ response' = [code |-> 201, error |-> NULL, detail |-> NULL, enqueued |-> 0]
    /\ UNCHANGED <<now, config, retry_store, backoff, store, proc, hist, session, sim_state>>

\* the except clauses: InvalidCallbackError is re-raised as it is, a
\* CommunicationError is enqueued for retry and re-raised, anything else propagates
\* (variant: an InvalidCallbackError is enqueued too)
Retryable_any_flow_error(exc) == exc \in {"CommunicationError", "InvalidCallbackError"}

Retryable(exc) == exc = "CommunicationError"

\* flow.handle_callback raises
CallbackRaises(provider_slug, shipment_id, payload, headers, exc) ==
    /\ ~KeyError(shipments, shipment_id)
    /\ shipments[shipment_id].provider = provider_slug
    /\ store' = IF Retryable(exc)
                THEN enqueue_callback_retry(retry_store, store, provider_slug, shipment_id,
                                            payload, headers, backoff, now)
                ELSE store
    /\ Len(store') <= MaxRecords
    /\ hist' = IF Len(store') > Len(store)
               THEN Append(hist, NewHist(Request(provider_slug, shipment_id,
                                                 payload, headers)))
               ELSE hist
    /\ response' = [Raise(exc, ErrorText(exc)) EXCEPT
                        !.enqueued = IF Len(store') > Len(store) THEN Len(store') ELSE 0]
    /\ UNCHANGED <<now, config, retry_store, backoff, shipments, proc, session, sim_state>>

handle_callback ==
    \E provider_slug \in ProviderSlugs, shipment_id \in ShipmentIds \cup {UnknownShipmentId} :
        \/ CallbackShipmentNotFound(provider_slug, shipment_id)
        \/ CallbackProviderMismatch(provider_slug, shipment_id)
        \/ CallbackAccepted(provider_slug, shipment_id)
        \/ \E cb \in Callbacks, exc \in FlowErrors :
               CallbackRaises(provider_slug, shipment_id, cb.payload, cb.headers, exc)

----
\* retry.py: process_due_retries

Call(op, retry_id, error) == [op |-> op, retry_id |-> retry_id, error |-> error]

\* (variant: attempts > max_attempts)
FailureCalls_strict(retry, exc, max_attempts) ==
    IF retry.attempts > max_attempts
    THEN <<Call("mark_exhausted", retry.id, NULL)>>
    ELSE <<Call("mark_failed", retry.id, ErrorText(exc))>>

\* (variant: the failure being handled counts as an attempt already)
FailureCalls_counting_this_one(retry, exc, max_attempts) ==
    IF retry.attempts + 1 >= max_attempts
    THEN <<Call("mark_exhausted", retry.id, NULL)>>
    ELSE <<Call("mark_failed", retry.id, ErrorText(exc))>>

\* (variant: the last failure is recorded, then the record is dead-lettered)
FailureCalls_both(retry, exc, max_attempts) ==
    IF retry.attempts >= max_attempts
    THEN <<Call("mark_failed", retry.id, ErrorText(exc)),
           Call("mark_exhausted", retry.id, NULL)>>
    ELSE <<Call("mark_failed", retry.id, ErrorText(exc))>>

\* the except branch of the replay: dead-letter or reschedule
FailureCalls(retry, exc, max_attempts) ==
    IF retry.attempts >= max_attempts
    THEN <<Call("mark_exhausted", retry.id, NULL)>>
    ELSE <<Call("mark_failed", retry.id, ErrorText(exc))>>

\* (variant: a replay that fails for good is dead-lettered at once)
RecordCalls_permanent_is_exhausted(retry, outcome, max_attempts) ==
    CASE outcome \in {"KeyError", "InvalidCallbackError"} ->
             <<Call("mark_exhausted", retry.id, NULL)>>
      [] outcome = "ok" -> <<Call("mark_succeeded", retry.id, NULL)>>
      [] OTHER -> FailureCalls(retry, outcome, max_attempts)

\* (variant: a replay that fails for good is written off as done)
RecordCalls_permanent_is_done(retry, outcome, max_attempts) ==
    CASE outcome = "KeyError" -> <<Call("mark_exhausted", retry.id, NULL)>>
      [] outcome \in {"ok", "InvalidCallbackError"} ->
             <<Call("mark_succeeded", retry.id, NULL)>>
      [] OTHER -> FailureCalls(retry, outcome, max_attempts)

\* (variant: a missing shipment is handled like a failed replay)
RecordCalls_missing_is_a_failure(retry, outcome, max_attempts) ==
    CASE outcome = "ok" -> <<Call("mark_succeeded", retry.id, NULL)>>
      [] OTHER          -> FailureCalls(retry, outcome, max_attempts)

\* the store calls one iteration of the loop makes for a record
RecordCalls(retry, outcome, max_attempts) ==
    CASE outcome = "KeyError" -> <<Call("mark_exhausted", retry.id, NULL)>>
      [] outcome = "ok"       -> <<Call("mark_succeeded", retry.id, NULL)>>
      [] OTHER                -> FailureCalls(retry, outcome, max_attempts)

StoreCall(st, c, backoff_seconds, clock) ==
    CASE c.op = "mark_succeeded" -> mark_succeeded(st, c.retry_id)
      [] c.op = "mark_failed"    -> mark_failed(st, c.retry_id, c.error, backoff_seconds, clock)
      [] c.op = "mark_exhausted" -> mark_exhausted(st, c.retry_id)
      [] OTHER                   -> st

RECURSIVE StoreCalls(_, _, _, _)
StoreCalls(st, calls, backoff_seconds, clock) ==
    IF calls = <<>>
    THEN st
    ELSE StoreCalls(StoreCall(st, Head(calls), backoff_seconds, clock), Tail(calls),
                    backoff_seconds, clock)

\* (variant: the headers are not passed on)
ReplayArgs_without_headers(retry, outcome) ==
    [shipment_id |-> retry.shipment_id,
     payload     |-> IF outcome = "KeyError" THEN NULL ELSE retry.payload,
     headers     |-> NULL]

\* repository.get_by_id(shipment_id), then flow.handle_callback(shipment,
\* payload, headers) with the values of the dict get_due_retries returned; a
\* KeyError of the lookup leaves the collaborator uncalled
ReplayArgs(retry, outcome) ==
    [shipment_id |-> retry.shipment_id,
     payload     |-> IF outcome = "KeyError" THEN NULL ELSE retry.payload,
     headers     |-> IF outcome = "KeyError" THEN NULL ELSE retry.headers]

\* the replays of a record, counted by how they ended, and the last of them
Replayed(h, retry, outcome, calls) ==
    LET last == [attempts |-> retry.attempts,
                 args     |-> ReplayArgs(retry, outcome),
                 outcome  |-> outcome,
                 calls    |-> calls]
    IN  IF ~HasRow(h, retry.id)
        THEN h
        ELSE CASE outcome = "KeyError" ->
                      [h EXCEPT ![retry.id].missing = @ + 1, ![retry.id].last = last]
               [] outcome = "ok" ->
                      [h EXCEPT ![retry.id].oks = @ + 1, ![retry.id].last = last]
               [] OTHER ->
                      [h EXCEPT ![retry.id].fails = @ + 1, ![retry.id].last = last]

\* (variant: the rows handed out are claimed, they leave the pending state)
ProcessStart_claiming(w, limit) ==
    /\ retry_store # "none"
    /\ proc[w].pc = "idle"
    /\ \E retries \in get_due_retries(store, now, limit) :
           /\ proc' = [proc EXCEPT ![w] =
                          [pc        |-> IF retries = <<>> THEN "idle" ELSE "loop",
                           batch     |-> retries,
                           processed |-> 0,
                           raised    |-> NULL]]
           /\ store' = [i \in 1..Len(store) |->
                           IF \E k \in 1..Len(retries) : retries[k].id = i
                           THEN [store[i] EXCEPT !.status = "processing"]
                           ELSE store[i]]
    /\ UNCHANGED <<now, config, retry_store, backoff, shipments, response, hist, session, sim_state>>

\* retries = await retry_store.get_due_retries(limit=limit); processed = 0; an
\* empty batch returns 0 at once
ProcessStart(w, limit) ==
    /\ retry_store # "none"
    /\ proc[w].pc = "idle"
    /\ \E retries \in get_due_retries(store, now, limit) :
           proc' = [proc EXCEPT ![w] =
                       [pc        |-> IF retries = <<>> THEN "idle" ELSE "loop",
                        batch     |-> retries,
                        processed |-> 0,
                        raised    |-> NULL]]
    /\ UNCHANGED <<now, config, retry_store, backoff, store, shipments, response, hist, session, sim_state>>

\* (variant: only the replays that succeeded are counted)
Iteration_counts_successes_only(w, outcome) ==
    LET retry == Head(proc[w].batch)
        calls == RecordCalls(retry, outcome, config.retry_max_attempts)
        rest  == Tail(proc[w].batch)
    IN  /\ store' = StoreCalls(store, calls, backoff, now)
        /\ hist' = Replayed(hist, retry, outcome, calls)
        /\ proc' = [proc EXCEPT ![w] =
                       [pc        |-> IF rest = <<>> THEN "idle" ELSE "loop",
                        batch     |-> rest,
                        processed |-> proc[w].processed + (IF outcome = "ok" THEN 1 ELSE 0),
                        raised    |-> NULL]]

\* one iteration of the loop, for the record at the head of the batch
Iteration(w, outcome) ==
    LET retry == Head(proc[w].batch)
        calls == RecordCalls(retry, outcome, config.retry_max_attempts)
        rest  == Tail(proc[w].batch)
    IN  /\ store' = StoreCalls(store, calls, backoff, now)
        /\ hist' = Replayed(hist, retry, outcome, calls)
        /\ proc' = [proc EXCEPT ![w] =
                       [pc        |-> IF rest = <<>> THEN "idle" ELSE "loop",
                        batch     |-> rest,
                        processed |-> proc[w].processed + 1,
                        raised    |-> NULL]]

\* (variant: the KeyError is not caught)
ReplayShipmentNotFound_propagates(w) ==
    /\ proc[w].pc = "loop"
    /\ KeyError(shipments, Head(proc[w].batch).shipment_id)
    /\ proc' = [proc EXCEPT ![w] =
                   [pc |-> "idle", batch |-> <<>>, processed |-> 0, raised |-> "KeyError"]]
    /\ UNCHANGED <<now, config, retry_store, backoff, store, shipments, response, hist, session, sim_state>>

\* repository.get_by_id raises KeyError: mark_exhausted, continue
ReplayShipmentNotFound(w) ==
    /\ proc[w].pc = "loop"
    /\ KeyError(shipments, Head(proc[w].batch).shipment_id)
    /\ Iteration(w, "KeyError")
    /\ UNCHANGED <<now, config, retry_store, backoff, shipments, response, session, sim_state>>

\* flow.handle_callback returns: mark_succeeded
ReplaySucceeds(w) ==
    /\ proc[w].pc = "loop"
    /\ ~KeyError(shipments, Head(proc[w].batch).shipment_id)
    /\ shipments' = ApplyCallback(shipments, Head(proc[w].batch).shipment_id)
    /\ Iteration(w, "ok")
    /\ UNCHANGED <<now, config, retry_store, backoff, response, session, sim_state>>

\* flow.handle_callback raises: mark_exhausted or mark_failed
ReplayFails(w, exc) ==
    /\ proc[w].pc = "loop"
    /\ ~KeyError(shipments, Head(proc[w].batch).shipment_id)
    /\ exc \in ReplayErrors
    /\ Iteration(w, exc)
    /\ UNCHANGED <<now, config, retry_store, backoff, shipments, response, session, sim_state>>

process_due_retries(w) ==
    \/ \E limit \in 1..MaxLimit : ProcessStart(w, limit)
    \/ ReplayShipmentNotFound(w)
    \/ ReplaySucceeds(w)
    \/ \E exc \in ReplayErrors : ReplayFails(w, exc)

----
\* retry.py: process_due_retries when the storage layer fails.  The sessions of
\* retry_store.py and repository.py raise SQLAlchemyError when the database
\* cannot be reached; a commit that raised wrote nothing.

\* the invocation ended with an exception
Aborted(exc) == [pc |-> "idle", batch |-> <<>>, processed |-> 0, raised |-> exc]

\* get_due_retries raises: nothing catches it
GetDueRetriesRaises(w) ==
    /\ retry_store # "none"
    /\ proc[w].pc = "idle"
    /\ proc' = [proc EXCEPT ![w] = Aborted("SQLAlchemyError")]
    /\ UNCHANGED <<now, config, retry_store, backoff, store, shipments, response, hist, session, sim_state>>

\* get_by_id raises something other than KeyError, or the mark_exhausted /
\* mark_failed call that records a missing shipment or a failed replay raises:
\* the exception leaves the loop and the rest of the batch is not processed
StorageErrorPropagates(w) ==
    /\ proc[w].pc = "loop"
    /\ proc' = [proc EXCEPT ![w] = Aborted("SQLAlchemyError")]
    /\ UNCHANGED <<now, config, retry_store, backoff, store, shipments, response, hist, session, sim_state>>

\* flow.handle_callback returns and mark_succeeded raises inside the try block:
\* the except clause takes it for a failed replay and calls mark_exhausted or
\* mark_failed, which takes effect or raises in its turn
MarkSucceededRaises(w, again) ==
    /\ proc[w].pc = "loop"
    /\ ~KeyError(shipments, Head(proc[w].batch).shipment_id)
    /\ shipments' = ApplyCallback(shipments, Head(proc[w].batch).shipment_id)
    /\ IF again
       THEN /\ proc' = [proc EXCEPT ![w] = Aborted("SQLAlchemyError")]
            /\ UNCHANGED <<store, hist>>
       ELSE Iteration(w, "SQLAlchemyError")
    /\ UNCHANGED <<now, config, retry_store, backoff, response, session, sim_state>>

storage_errors(w) ==
    \/ GetDueRetriesRaises(w)
    \/ StorageErrorPropagates(w)
    \/ \E again \in BOOLEAN : MarkSucceededRaises(w, again)

----
\* routes/callbacks.py: handle_callback when the storage layer fails.  No
\* handler of EXCEPTION_HANDLERS takes an SQLAlchemyError: the caller gets a 500.

\* repository.get_by_id raises something other than KeyError
CallbackLookupRaises(provider_slug, shipment_id) ==
    /\ response' = Raise("SQLAlchemyError", ErrorText("SQLAlchemyError"))
    /\ UNCHANGED <<now, config, retry_store, backoff, store, shipments, proc, hist, session, sim_state>>

\* (variant: the storage error is swallowed and the CommunicationError re-raised)
CallbackEnqueueRaises_swallowed(provider_slug, shipment_id) ==
    /\ retry_store # "none"
    /\ ~KeyError(shipments, shipment_id)
    /\ shipments[shipment_id].provider = provider_slug
    /\ response' = Raise("CommunicationError", ErrorText("CommunicationError"))
    /\ UNCHANGED <<now, config, retry_store, backoff, store, shipments, proc, hist, session, sim_state>>

\* flow.handle_callback raises CommunicationError and store_failed_callback
\* raises inside enqueue_callback_retry: the storage error leaves the except
\* clause in place of the CommunicationError, and nothing was stored
CallbackEnqueueRaises(provider_slug, shipment_id) ==
    /\ retry_store # "none"
    /\ ~KeyError(shipments, shipment_id)
    /\ shipments[shipment_id].provider = provider_slug
    /\ response' = Raise("SQLAlchemyError", ErrorText("SQLAlchemyError"))
    /\ UNCHANGED <<now, config, retry_store, backoff, store, shipments, proc, hist, session, sim_state>>

handle_callback_storage_errors ==
    \E provider_slug \in ProviderSlugs, shipment_id \in ShipmentIds \cup {UnknownShipmentId} :
        \/ CallbackLookupRaises(provider_slug, shipment_id)
        \/ CallbackEnqueueRaises(provider_slug, shipment_id)

----
\* the environment

\* a pending record is waiting for its next_retry_at
Waiting(st, clock) ==
    \E i \in 1..Len(st) : st[i].status = "pending" /\ st[i].next_retry_at > clock

\* the wall clock advances; the program only compares it with next_retry_at, so
\* it is let to advance only while a pending record waits for it
Tick ==
    /\ now < MaxTime
    /\ Waiting(store, now)
    /\ now' = now + 1
    /\ UNCHANGED <<config, retry_store, backoff, store, shipments, proc, response, hist, session, sim_state>>

\* the wall clock of the specifications that follow a single retry record
TickSingle ==
    /\ now < MaxSingleTime
    /\ Waiting(store, now)
    /\ now' = now + 1
    /\ UNCHANGED <<config, retry_store, backoff, store, shipments, proc, response, hist, session, sim_state>>

\* a shipment row is deleted by its owner (the repository has no delete)
ShipmentDeleted ==
    /\ \E s \in ShipmentIds :
           /\ shipments[s] # NoShipment
           /\ shipments' = [shipments EXCEPT ![s] = NoShipment]
    /\ UNCHANGED <<now, config, retry_store, backoff, store, proc, response, hist, session, sim_state>>

----
\* retry_store.py: mark_failed as its two awaits cut it, session.get and then
\* session.commit, each call in a session of its own

\* the UPDATE a commit flushes: the columns the assignments gave a new value
\* (attempts and next_retry_at always, the clock reading being a new one each
\* time), written over whatever the row holds by then
Flush(st, s) ==
    LET loaded == s.rows[1]
        dirty  == s.rows[2]
    IN  [st EXCEPT ![s.retry_id] =
            [f \in DOMAIN st[s.retry_id] |->
                IF f \in {"attempts", "next_retry_at"} \/ dirty[f] # loaded[f]
                THEN dirty[f]
                ELSE st[s.retry_id][f]]]

\* flow.handle_callback raised and the attempts read leave room: mark_failed
\* loads the row and assigns attempts, last_error, next_retry_at and status in
\* its session, up to the await of the commit
MarkFailedLoad(w, exc) ==
    /\ proc[w].pc = "loop"
    /\ exc \in ReplayErrors
    /\ LET retry == Head(proc[w].batch)
       IN  /\ ~KeyError(shipments, retry.shipment_id)
           /\ FailureCalls(retry, exc, config.retry_max_attempts)
                  = <<Call("mark_failed", retry.id, ErrorText(exc))>>
           /\ HasRow(store, retry.id)
           /\ session' = [session EXCEPT ![w] =
                  [retry_id |-> retry.id,
                   error    |-> ErrorText(exc),
                   outcome  |-> exc,
                   rows     |-> <<store[retry.id],
                                  mark_failed(store, retry.id, ErrorText(exc),
                                              backoff, now)[retry.id]>>]]
    /\ proc' = [proc EXCEPT ![w].pc = "mark_failed"]
    /\ UNCHANGED <<now, config, retry_store, backoff, store, shipments, response, hist, sim_state>>

\* the commit returns, mark_failed returns, and the loop goes on
MarkFailedCommit(w) ==
    /\ proc[w].pc = "mark_failed"
    /\ LET retry == Head(proc[w].batch)
           s     == session[w]
           rest  == Tail(proc[w].batch)
       IN  /\ store' = Flush(store, s)
           /\ hist' = Replayed(hist, retry, s.outcome,
                               <<Call("mark_failed", s.retry_id, s.error)>>)
           /\ proc' = [proc EXCEPT ![w] =
                          [pc        |-> IF rest = <<>> THEN "idle" ELSE "loop",
                           batch     |-> rest,
                           processed |-> proc[w].processed + 1,
                           raised    |-> NULL]]
    /\ session' = [session EXCEPT ![w] = NoSession]
    /\ UNCHANGED <<now, config, retry_store, backoff, shipments, response, sim_state>>

\* flow.handle_callback raised and the attempts read are used up: mark_exhausted
ReplayFailsExhausted(w, exc) ==
    /\ proc[w].pc = "loop"
    /\ Head(proc[w].batch).attempts >= config.retry_max_attempts
    /\ ReplayFails(w, exc)

process_due_retries_by_awaits(w) ==
    \/ \E limit \in 1..MaxLimit : ProcessStart(w, limit)
    \/ ReplayShipmentNotFound(w)
    \/ ReplaySucceeds(w)
    \/ \E exc \in ReplayErrors :
           \/ ReplayFailsExhausted(w, exc)
           \/ MarkFailedLoad(w, exc)
    \/ MarkFailedCommit(w)

----
\* example/delivery_sim.py: the simulated provider and its control panel

\* the members of sendparcel.enums.ShipmentStatus, each standing for its value
ShipmentStatuses ==
    {"new", "created", "label_ready", "in_transit", "out_for_delivery",
     "delivered", "cancelled", "failed", "returned"}

_NEXT_STATUSES ==
    [current \in {"created", "label_ready", "in_transit", "out_for_delivery"} |->
        CASE current = "created"     -> <<"label_ready", "cancelled", "failed">>
          [] current = "label_ready" -> <<"in_transit", "cancelled", "failed">>
          [] current = "in_transit"  ->
                 <<"out_for_delivery", "delivered", "returned", "failed">>
          [] current = "out_for_delivery" -> <<"delivered", "returned", "failed">>]

\* (variant: a shipment the simulator has never seen counts as created)
get_sim_status_default_created(state, shipment_id) ==
    IF state[shipment_id] = NULL THEN "created" ELSE state[shipment_id]

\* _sim_state.get(shipment_id, ShipmentStatus.NEW)
get_sim_status(state, shipment_id) ==
    IF state[shipment_id] = NULL THEN "new" ELSE state[shipment_id]

\* _NEXT_STATUSES.get(current, [])
get_next_statuses(current) ==
    IF current \in DOMAIN _NEXT_STATUSES THEN _NEXT_STATUSES[current] ELSE <<>>

\* new_status in allowed
In(x, list) == \E k \in 1..Len(list) : list[k] = x

\* _sim_state after sim_advance(shipment_id, {"status": new_status}); a body
\* without "status" gives new_status = ""
sim_advance(state, shipment_id, new_status) ==
    LET current == get_sim_status(state, shipment_id)
        allowed == get_next_statuses(current)
    IN  IF In(new_status, allowed)
        THEN [state EXCEPT ![shipment_id] = new_status]
        ELSE state

\* POST /sim/advance/{shipment_id}
SimAdvance(shipment_id, new_status) ==
    /\ sim_state' = sim_advance(sim_state, shipment_id, new_status)
    /\ UNCHANGED <<now, config, retry_store, backoff, store, shipments, proc, response,
                   hist, session>>

\* DeliverySimProvider.create_shipment
SimCreateShipment(shipment_id) ==
    /\ sim_state' = [sim_state EXCEPT ![shipment_id] = "created"]
    /\ UNCHANGED <<now, config, retry_store, backoff, store, shipments, proc, response,
                   hist, session>>

\* DeliverySimProvider.cancel_shipment
SimCancelShipment(shipment_id) ==
    /\ sim_state' = [sim_state EXCEPT ![shipment_id] = "cancelled"]
    /\ UNCHANGED <<now, config, retry_store, backoff, store, shipments, proc, response,
                   hist, session>>

----
\* Spec: the ingress and one worker that runs its invocations one after another

Next ==
    \/ handle_callback
    \/ process_due_retries("w1")
    \/ Tick
    \/ ShipmentDeleted

Spec == Init /\ [][Next]_vars

\* SpecSingle: as Spec, with a single retry record enqueued and a shorter day

NextSingle ==
    \/ handle_callback /\ Len(store') <= MaxSingleRecords
    \/ process_due_retries("w1")
    \/ TickSingle
    \/ ShipmentDeleted

SpecSingle == Init /\ [][NextSingle]_vars

\* SpecConcurrent: as Spec, with every worker invoking process_due_retries

NextConcurrent ==
    \/ handle_callback /\ Len(store') <= MaxConcurrentRecords
    \/ \E w \in Workers : process_due_retries(w)
    \/ Tick
    \/ ShipmentDeleted

SpecConcurrent == Init /\ [][NextConcurrent]_vars

\* SpecStorage: as Spec, with a storage layer that can fail

NextStorage ==
    \/ handle_callback
    \/ handle_callback_storage_errors
    \/ process_due_retries("w1")
    \/ storage_errors("w1")
    \/ Tick
    \/ ShipmentDeleted

SpecStorage == Init /\ [][NextStorage]_vars

\* SpecStorageSingle: as SpecSingle, with a storage layer that can fail

NextStorageSingle ==
    \/ handle_callback /\ Len(store') <= MaxSingleRecords
    \/ handle_callback_storage_errors
    \/ process_due_retries("w1")
    \/ storage_errors("w1")
    \/ TickSingle
    \/ ShipmentDeleted

SpecStorageSingle == Init /\ [][NextStorageSingle]_vars

\* SpecAwaits: as SpecConcurrent, with the other calls let in between the load
\* and the commit of a mark_failed call

NextAwaits ==
    \/ handle_callback /\ Len(store') <= MaxConcurrentRecords
    \/ \E w \in Workers : process_due_retries_by_awaits(w)
    \/ Tick
    \/ ShipmentDeleted

SpecAwaits == Init /\ [][NextAwaits]_vars

\* SpecConfig: as Spec with a single retry record, with the whole SendparcelConfig: the retry settings the
\* code does not read are there too, at every value, and differ from the
\* backoff_seconds the store was built with

ConfigBackoffChoices == {1, 2}

InitConfig ==
    /\ now = 0
    /\ config \in [retry_max_attempts    : MaxAttemptsChoices,
                   retry_backoff_seconds : ConfigBackoffChoices,
                   retry_enabled         : BOOLEAN]
    /\ retry_store \in {"none", "sqlalchemy"}
    /\ backoff \in BackoffChoices
    /\ store = <<>>
    /\ shipments = [s \in ShipmentIds |->
                       [provider |-> "dhl", status |-> "label_ready"]]
    /\ proc = [w \in Workers |-> Idle]
    /\ response = NoResponse
    /\ hist = <<>>
    /\ session = [w \in Workers |-> NoSession]
    /\ sim_state = [sid \in SimShipmentIds |-> NULL]

NextConfig ==
    \/ handle_callback /\ Len(store') <= MaxSingleRecords
    \/ process_due_retries("w1")
    \/ Tick
    \/ ShipmentDeleted

SpecConfig == InitConfig /\ [][NextConfig]_vars

\* SpecSim: the example's delivery simulator, its control panel posting any
\* status, or none, for any shipment

NextSim ==
    \E shipment_id \in SimShipmentIds :
        \/ \E new_status \in ShipmentStatuses \cup {""} :
               SimAdvance(shipment_id, new_status)
        \/ SimCreateShipment(shipment_id)
        \/ SimCancelShipment(shipment_id)

SpecSim == Init /\ [][NextSim]_vars

\* LiveSpec: as SpecSingle with the clock unbounded, the worker invoked again and again
\* and never stalling inside an invocation, and the clock advancing

TickLive ==
    /\ Waiting(store, now)
    /\ now' = now + 1
    /\ UNCHANGED <<config, retry_store, backoff, store, shipments, proc, response, hist, session, sim_state>>

InitLive ==
    /\ Init
    /\ backoff * config.retry_max_attempts <= 1

NextLive ==
    \/ handle_callback /\ Len(store') <= MaxSingleRecords
    \/ process_due_retries("w1")
    \/ TickLive
    \/ ShipmentDeleted

LiveSpec ==
    /\ InitLive
    /\ [][NextLive]_vars
    /\ WF_vars(process_due_retries("w1"))
    /\ WF_vars(TickLive)

----
\* Properties

Terminal(r) == r.status \in {"succeeded", "exhausted"}

Replays(h) == h.fails + h.oks + h.missing

\* C1: every retry record eventually reaches succeeded or exhausted, after at
\* most retry_max_attempts + 1 replays, when process_due_retries keeps being
\* invoked and the clock keeps advancing (LiveSpec)
C1_EventuallyResolved ==
    /\ \A i \in 1..MaxRecords :
           (Len(store) >= i) ~> (Len(store) >= i /\ Terminal(store[i]))
    /\ [](\A i \in 1..Len(store) : Replays(hist[i]) <= config.retry_max_attempts + 1)

\* a record dead-lettered by the last replay its attempt budget allows
C1_Witness ==
    \E i \in 1..Len(store) :
        /\ store[i].status = "exhausted"
        /\ hist[i].fails = config.retry_max_attempts + 1

FailedLast(i) == hist[i].last.outcome \in ReplayErrors

\* C2: a failed replay calls mark_exhausted when the attempts value read from
\* get_due_retries is >= retry_max_attempts and otherwise mark_failed with the
\* error text, never both; the record is left as that one call leaves it
C2_FailureDecision ==
    \A i \in 1..Len(store) :
        FailedLast(i) =>
            LET l == hist[i].last
            IN  IF l.attempts >= config.retry_max_attempts
                THEN /\ l.calls = <<Call("mark_exhausted", i, NULL)>>
                     /\ store[i].status = "exhausted"
                     /\ store[i].attempts = l.attempts
                ELSE /\ l.calls = <<Call("mark_failed", i, ErrorText(l.outcome))>>
                     /\ store[i].status = "pending"
                     /\ store[i].attempts = l.attempts + 1
                     /\ store[i].last_error = ErrorText(l.outcome)

\* a record rescheduled by earlier failures and dead-lettered by the last one
C2_Witness ==
    \E i \in 1..Len(store) :
        /\ FailedLast(i)
        /\ hist[i].last.calls = <<Call("mark_exhausted", i, NULL)>>
        /\ hist[i].fails >= 2

\* C3 as stated: a record read with attempts = retry_max_attempts - 1 whose
\* replay fails ends exhausted
C3_Original ==
    \A i \in 1..Len(store) :
        (FailedLast(i) /\ hist[i].last.attempts = config.retry_max_attempts - 1)
            => store[i].status = "exhausted"

\* C3 (amended): a record read with attempts = retry_max_attempts - 1 whose
\* replay fails stays pending, with attempts = retry_max_attempts; a record read
\* with attempts = retry_max_attempts whose replay fails ends exhausted
C3_ExhaustedAtMax ==
    \A i \in 1..Len(store) :
        FailedLast(i) =>
            /\ hist[i].last.attempts = config.retry_max_attempts - 1 =>
                   /\ store[i].status = "pending"
                   /\ store[i].attempts = config.retry_max_attempts
            /\ hist[i].last.attempts = config.retry_max_attempts =>
                   store[i].status = "exhausted"

C3_Witness ==
    \E i \in 1..Len(store) :
        /\ FailedLast(i)
        /\ hist[i].last.attempts = config.retry_max_attempts - 1
        /\ store[i].status = "pending"
        /\ store[i].attempts = config.retry_max_attempts

OnlyFailed(i) == hist[i].oks = 0 /\ hist[i].missing = 0

\* C4 as stated: with retry_max_attempts = 3, failed replays 1, 2, 3 of a fresh
\* record leave it pending(1), pending(2), exhausted(3)
C4_Original ==
    \A i \in 1..Len(store) :
        (config.retry_max_attempts = 3 /\ OnlyFailed(i)) =>
            /\ hist[i].fails \in {1, 2} =>
                   store[i].status = "pending" /\ store[i].attempts = hist[i].fails
            /\ hist[i].fails = 3 =>
                   store[i].status = "exhausted" /\ store[i].attempts = 3

\* C4 (amended): with retry_max_attempts = 3, failed replays 1, 2, 3 of a fresh
\* record leave it pending(1), pending(2), pending(3); the fourth failed replay
\* dead-letters it, attempts staying 3, and it is replayed no more
C4_ThreeThenExhausted ==
    \A i \in 1..Len(store) :
        (config.retry_max_attempts = 3 /\ OnlyFailed(i)) =>
            /\ hist[i].fails \in 0..4
            /\ hist[i].fails <= 3 =>
                   store[i].status = "pending" /\ store[i].attempts = hist[i].fails
            /\ hist[i].fails = 4 =>
                   store[i].status = "exhausted" /\ store[i].attempts = 3

C4_Witness ==
    \E i \in 1..Len(store) :
        /\ config.retry_max_attempts = 3
        /\ OnlyFailed(i)
        /\ hist[i].fails = 4
        /\ store[i].status = "exhausted"

\* C5 as stated: a 502 is reported only after a retry record was persisted,
\* whatever the router was given as retry_store
C5_Original ==
    response.code = 502 => (response.enqueued # 0 /\ HasRow(store, response.enqueued))

\* C5 (amended): when the router was given a retry store, a 502 is reported only
\* after a retry record for that callback was persisted; with retry_store = None
\* the 502 is reported and nothing is persisted
C5_PersistedBefore502 ==
    /\ (response.code = 502 /\ retry_store # "none") =>
           /\ response.enqueued # 0
           /\ HasRow(store, response.enqueued)
           /\ hist[response.enqueued].request.shipment_id
                  = store[response.enqueued].shipment_id
    /\ retry_store = "none" => store = <<>>

C5_Witness ==
    /\ response.code = 502
    /\ retry_store = "sqlalchemy"
    /\ response.enqueued = Len(store)
    /\ Len(store) >= 1

\* C6: only a CommunicationError makes the ingress create a retry record; a
\* call that ends in 404 (unknown shipment), 400 (provider mismatch,
\* InvalidCallbackError) or 409 leaves the retry store as it was
C6_OnlyCommunicationErrorEnqueues ==
    [][/\ Len(store') > Len(store) => response'.code = 502
       /\ (response' # response /\ response'.code # 502) => store' = store]_vars

\* a permanent failure reported while the store holds an earlier record
C6_Witness ==
    /\ response.code \in {400, 404}
    /\ Len(store) = 1
    /\ hist[1].last = NoReplay

\* C7: an ingress call ending in a communication failure, a retry store being
\* configured, appends exactly one record: pending, attempts 0, next_retry_at =
\* now + backoff_seconds, with the call's shipment_id, provider_slug, payload and
\* headers; the records already stored are unchanged
C7_ExactlyOneRecord ==
    [][Len(store') > Len(store) =>
          LET n   == Len(store')
              req == hist'[n].request
          IN  /\ response'.code = 502
              /\ store' = Append(store,
                     [id            |-> Len(store) + 1,
                      shipment_id   |-> req.shipment_id,
                      provider_slug |-> req.provider_slug,
                      payload       |-> req.payload,
                      headers       |-> req.headers,
                      attempts      |-> 0,
                      next_retry_at |-> now + backoff,
                      last_error    |-> NULL,
                      status        |-> "pending",
                      created_at    |-> now])]_vars

\* a second record just enqueued
C7_Witness ==
    /\ response.code = 502
    /\ response.enqueued = 2
    /\ Len(store) = 2
    /\ store[2].attempts = 0
    /\ store[2].status = "pending"
    /\ store[2].next_retry_at > now

\* C8: once a record is succeeded or exhausted, no later mark_* call changes it
C8_TerminalIsFinal ==
    [][\A i \in 1..Len(store) : Terminal(store[i]) => store'[i] = store[i]]_vars

\* this step was a mark_failed on record i
MarkedFailed(i) ==
    /\ hist'[i] # hist[i]
    /\ hist'[i].last.calls = <<Call("mark_failed", i, ErrorText(hist'[i].last.outcome))>>

\* C9 as stated: mark_failed adds 1 to attempts, sets last_error, leaves status
\* pending and sets next_retry_at to now + backoff_seconds * 2^(new attempts - 1)
C9_Original ==
    [][\A i \in 1..Len(store) :
          MarkedFailed(i) =>
              /\ store'[i].attempts = store[i].attempts + 1
              /\ store'[i].last_error = ErrorText(hist'[i].last.outcome)
              /\ store'[i].status = "pending"
              /\ store'[i].next_retry_at
                     = now + backoff * 2 ^ (store'[i].attempts - 1)]_vars

\* C9 (amended): mark_failed adds 1 to attempts, sets last_error, leaves status
\* pending and sets next_retry_at to now + backoff_seconds * 2^(new attempts):
\* the attempt number it schedules for is the new attempts value plus one
C9_MarkFailed ==
    [][\A i \in 1..Len(store) :
          MarkedFailed(i) =>
              /\ store'[i].attempts = store[i].attempts + 1
              /\ store'[i].last_error = ErrorText(hist'[i].last.outcome)
              /\ store'[i].status = "pending"
              /\ store'[i].next_retry_at = now + backoff * 2 ^ store'[i].attempts
              /\ \A j \in 1..Len(store) : j # i => store'[j] = store[j]]_vars

\* a record rescheduled twice, with a backoff that shows in the schedule
C9_Witness ==
    \E i \in 1..Len(store) :
        /\ backoff > 0
        /\ store[i].attempts = 2
        /\ store[i].status = "pending"
        /\ hist[i].last.calls = <<Call("mark_failed", i, ErrorText(hist[i].last.outcome))>>

\* C10 as stated: attempts equals the number of failed replays of the record,
\* the one that dead-letters it included
C10_Original ==
    \A i \in 1..Len(store) : store[i].attempts = hist[i].fails

\* the record was dead-lettered by a failed replay
ExhaustedByFailure(i) == store[i].status = "exhausted" /\ FailedLast(i)

\* C10 (amended): attempts starts at 0 and is incremented once per failed replay
\* that reschedules the record; the failed replay that dead-letters it does not
\* increment it, so attempts is the number of failed replays, less one for a
\* record dead-lettered by a failed replay
C10_AttemptsCountReschedules ==
    \A i \in 1..Len(store) :
        /\ hist[i].fails = 0 => store[i].attempts = 0
        /\ store[i].attempts =
               hist[i].fails - (IF ExhaustedByFailure(i) THEN 1 ELSE 0)

C10_Witness ==
    \E i \in 1..Len(store) :
        /\ ExhaustedByFailure(i)
        /\ store[i].attempts >= 1
        /\ hist[i].fails = store[i].attempts + 1

\* C11: attempts of a record is never negative and never decreases: in every
\* step (an enqueue, a mark_* call, a processor iteration) the value after is
\* >= the value before
C11_AttemptsMonotonic ==
    [][\A i \in 1..Len(store) :
          /\ store[i].attempts >= 0
          /\ store'[i].attempts >= store[i].attempts
          /\ store'[i].attempts >= 0]_vars

\* a record rescheduled twice and then replayed successfully
C11_Witness ==
    \E i \in 1..Len(store) :
        /\ store[i].status = "succeeded"
        /\ store[i].attempts >= 2
        /\ hist[i].last.calls = <<Call("mark_succeeded", i, NULL)>>


\* this step was a store_failed_callback
Enqueued == Len(store') > Len(store)

\* C12 as stated: every write that creates a pending record or leaves a record
\* pending sets next_retry_at strictly later than the clock reading of the
\* write, whatever backoff_seconds the store was constructed with
C12_Original ==
    [][/\ Enqueued => store'[Len(store')].next_retry_at > now
       /\ \A i \in 1..Len(store) :
              MarkedFailed(i) => store'[i].next_retry_at > now]_vars

\* C12 (amended): with backoff_seconds > 0 every write that creates a pending
\* record or leaves a record pending sets next_retry_at strictly later than the
\* clock reading of the write; the store takes backoff_seconds = 0 as well, and
\* then next_retry_at is the clock reading itself: the record is due at once
C12_FutureWhenPositive ==
    [][/\ Enqueued =>
              /\ store'[Len(store')].status = "pending"
              /\ IF backoff > 0
                 THEN store'[Len(store')].next_retry_at > now
                 ELSE store'[Len(store')].next_retry_at = now
       /\ \A i \in 1..Len(store) :
              MarkedFailed(i) =>
                  /\ store'[i].status = "pending"
                  /\ IF backoff > 0
                     THEN store'[i].next_retry_at > now
                     ELSE store'[i].next_retry_at = now]_vars

\* a record just created and a record just rescheduled, both waiting
C12_Witness ==
    /\ backoff > 0
    /\ \E i, j \in 1..Len(store) :
           /\ store[i].attempts = 0 /\ store[i].created_at = now
           /\ store[i].status = "pending" /\ store[i].next_retry_at > now
           /\ store[j].attempts = 1 /\ store[j].status = "pending"
           /\ store[j].next_retry_at = now + 2 * backoff
           /\ hist[j].last.calls = <<Call("mark_failed", j, ErrorText(hist[j].last.outcome))>>


\* record i is pending and due at the clock reading
PendingDue(i) == store[i].status = "pending" /\ store[i].next_retry_at <= now

\* what C13 asks of a list q returned by get_due_retries(limit) on the store
DueResultOK(q, limit) ==
    LET ids == {q[k].id : k \in 1..Len(q)}
    IN  /\ Len(q) <= limit
        /\ \A k \in 1..Len(q) :
               /\ HasRow(store, q[k].id)
               /\ PendingDue(q[k].id)
               /\ q[k] = RetryDict(store[q[k].id])
        /\ \A k, l \in 1..Len(q) :
               k < l => /\ q[k].id # q[l].id
                        /\ store[q[k].id].next_retry_at <= store[q[l].id].next_retry_at
        /\ \A i \in 1..Len(store) :
               (PendingDue(i) /\ i \notin ids) =>
                   /\ Len(q) = limit
                   /\ \A k \in 1..Len(q) :
                          store[q[k].id].next_retry_at <= store[i].next_retry_at
        /\ (\A i \in 1..Len(store) : ~PendingDue(i)) => q = <<>>

\* this step was the get_due_retries call of an invocation that got a batch
GotBatch(w) == proc[w].pc # "loop" /\ proc'[w].pc = "loop"

\* C13: get_due_retries(limit) returns at most limit records, each pending with
\* next_retry_at <= now, in ascending order of next_retry_at, the earliest-due
\* ones (a pending due record is left out only when limit records were returned
\* and none of them is due later than it); it returns the empty list when
\* nothing is due and never a succeeded or exhausted record
C13_DueRetries ==
    /\ [](\A limit \in 0..MaxLimit :
              /\ get_due_retries(store, now, limit) # {}
              /\ \A q \in get_due_retries(store, now, limit) : DueResultOK(q, limit))
    /\ [][\A w \in Workers :
              GotBatch(w) => \E limit \in 1..MaxLimit : DueResultOK(proc'[w].batch, limit)]_vars

\* get_due_retries(1) has just handed out the earlier of two due records
C13_Witness ==
    /\ Len(store) = 2
    /\ PendingDue(1) /\ PendingDue(2)
    /\ store[1].next_retry_at < store[2].next_retry_at
    /\ proc["w1"].pc = "loop"
    /\ proc["w1"].processed = 0
    /\ proc["w1"].batch = <<RetryDict(store[1])>>


\* record i is in some list get_due_retries may return on table st at time clock
HandedOut(st, clock, i) ==
    \E limit \in 1..MaxLimit : \E q \in get_due_retries(st, clock, limit) :
        \E k \in 1..Len(q) : q[k].id = i

\* this step was a replay of record i
ReplayedNow(i) == hist'[i] # hist[i]

\* C14: a record is not handed out by get_due_retries before its next_retry_at:
\* with backoff_seconds > 0 a get_due_retries call right after
\* store_failed_callback does not return the new record (it returns the empty
\* list when nothing else is due), and a record rescheduled by mark_failed is
\* returned by no get_due_retries call made before its new next_retry_at; a
\* processor that runs its invocations one after another replays a record only
\* at or after its next_retry_at
C14_NotBeforeDue ==
    /\ [](\A i \in 1..Len(store) :
              store[i].next_retry_at > now => ~HandedOut(store, now, i))
    /\ [][/\ (Enqueued /\ backoff > 0) =>
                 /\ ~HandedOut(store', now, Len(store'))
                 /\ (\A i \in 1..Len(store) : ~PendingDue(i)) =>
                        get_due_retries(store', now, 1) = {<<>>}
          /\ \A i \in 1..Len(store) :
                 /\ (MarkedFailed(i) /\ backoff > 0) => ~HandedOut(store', now, i)
                 /\ ReplayedNow(i) => store[i].next_retry_at <= now
          /\ \A w \in Workers :
                 GotBatch(w) =>
                     \A k \in 1..Len(proc'[w].batch) :
                         store[proc'[w].batch[k].id].next_retry_at <= now]_vars

\* record 1, rescheduled by mark_failed, waits for its next_retry_at while a
\* later invocation was handed record 2 only
C14_Witness ==
    /\ backoff > 0
    /\ Len(store) = 2
    /\ store[1].status = "pending" /\ store[1].attempts >= 1
    /\ store[1].next_retry_at > now
    /\ hist[1].last.calls = <<Call("mark_failed", 1, ErrorText(hist[1].last.outcome))>>
    /\ proc["w1"].pc = "loop" /\ proc["w1"].processed = 0
    /\ proc["w1"].batch = <<RetryDict(store[2])>>


\* table st with the status of row retry_id set, everything else as it was
WithStatus(st, retry_id, status) ==
    [i \in 1..Len(st) |-> IF i = retry_id THEN [st[i] EXCEPT !.status = status] ELSE st[i]]

\* this step was a replay of record i that made exactly the call op on it
MarkedAgain(i, op, status) ==
    /\ ReplayedNow(i)
    /\ hist'[i].last.calls = <<Call(op, i, NULL)>>
    /\ store[i].status = status

\* C15: mark_succeeded and mark_exhausted are idempotent: a second call on the
\* same record leaves the store as the first call left it (status succeeded,
\* respectively exhausted, nothing else touched), and a call with a retry_id
\* that is not in the store changes nothing
C15_Idempotent ==
    /\ [](\A retry_id \in 0..(Len(store) + 1) :
              /\ mark_succeeded(mark_succeeded(store, retry_id), retry_id)
                     = mark_succeeded(store, retry_id)
              /\ mark_exhausted(mark_exhausted(store, retry_id), retry_id)
                     = mark_exhausted(store, retry_id)
              /\ IF HasRow(store, retry_id)
                 THEN /\ mark_succeeded(store, retry_id)
                             = WithStatus(store, retry_id, "succeeded")
                      /\ mark_exhausted(store, retry_id)
                             = WithStatus(store, retry_id, "exhausted")
                 ELSE /\ mark_succeeded(store, retry_id) = store
                      /\ mark_exhausted(store, retry_id) = store)
    /\ [][\A i \in 1..Len(store) :
              (\/ MarkedAgain(i, "mark_succeeded", "succeeded")
               \/ MarkedAgain(i, "mark_exhausted", "exhausted")) => store' = store]_vars

\* two invocations replayed the same record and each called mark_succeeded
C15_Witness ==
    \E i \in 1..Len(store) :
        /\ hist[i].oks = 2
        /\ store[i].status = "succeeded"
        /\ hist[i].last.calls = <<Call("mark_succeeded", i, NULL)>>


\* this step handled the record at the head of a batch that has later records
HandledWithMoreToDo(w) ==
    /\ proc[w].pc = "loop"
    /\ Len(proc[w].batch) > 1
    /\ proc'[w] # proc[w]

\* the invocation goes on with the records after the one it handled
GoesOn(w) ==
    /\ proc'[w].pc = "loop"
    /\ proc'[w].batch = Tail(proc[w].batch)
    /\ proc'[w].processed = proc[w].processed + 1
    /\ proc'[w].raised = NULL

\* C16 as stated: whatever happens while a record is handled (lookup, replay,
\* recording the outcome), the invocation goes on with the later records
C16_Original ==
    [][\A w \in Workers : HandledWithMoreToDo(w) => GoesOn(w)]_vars

\* C16 (amended): a missing shipment (KeyError), a replay that returns and a
\* replay that raises any exception leave the invocation running, and it goes
\* on with the later records; only a storage error (get_by_id raising something
\* other than KeyError, or mark_exhausted / mark_failed raising while the
\* outcome is recorded) propagates, ends the invocation and leaves the later
\* records unprocessed, and then nothing was written for the record in hand
C16_OutcomeNeverAborts ==
    [][\A w \in Workers :
          HandledWithMoreToDo(w) =>
              \/ GoesOn(w)
              \/ /\ proc'[w] = Aborted("SQLAlchemyError")
                 /\ store' = store
                 /\ hist' = hist]_vars

\* the first record of a batch of two was dead-lettered for its missing
\* shipment or after a failed replay, and the second is being handled
C16_Witness ==
    /\ Len(store) = 2
    /\ proc["w1"].pc = "loop"
    /\ proc["w1"].processed = 1
    /\ Len(proc["w1"].batch) = 1
    /\ \E i \in 1..2 :
           /\ i # Head(proc["w1"].batch).id
           /\ hist[i].last.outcome \in ReplayErrors \cup {"KeyError"}
           /\ store[i].status = "exhausted"


\* this step handled the head of w's batch, whose shipment the repository lacks
HandledMissing(w) ==
    /\ proc[w].pc = "loop"
    /\ proc'[w] # proc[w]
    /\ KeyError(shipments, Head(proc[w].batch).shipment_id)

\* C17: when the lookup of a due record's shipment raises KeyError, the
\* processor calls mark_exhausted for the record whatever its attempts value
\* and calls nothing else on the store, does not invoke the collaborator
\* (no replay outcome, no shipment change), counts the record as processed and
\* goes on to the next record
C17_MissingShipmentExhausts ==
    [][\A w \in Workers :
          HandledMissing(w) =>
              LET retry == Head(proc[w].batch)
              IN  /\ hist'[retry.id].last =
                         [attempts |-> retry.attempts,
                          args     |-> [shipment_id |-> retry.shipment_id,
                                        payload |-> NULL, headers |-> NULL],
                          outcome  |-> "KeyError",
                          calls    |-> <<Call("mark_exhausted", retry.id, NULL)>>]
                  /\ hist'[retry.id].fails = hist[retry.id].fails
                  /\ hist'[retry.id].oks = hist[retry.id].oks
                  /\ store' = WithStatus(store, retry.id, "exhausted")
                  /\ shipments' = shipments
                  /\ proc'[w].processed = proc[w].processed + 1
                  /\ proc'[w].batch = Tail(proc[w].batch)
                  /\ proc'[w].raised = NULL
                  /\ proc'[w].pc = IF Len(proc[w].batch) > 1 THEN "loop" ELSE "idle"]_vars

\* a record dead-lettered for its missing shipment with attempts to spare
C17_Witness ==
    \E i \in 1..Len(store) :
        /\ hist[i].last.outcome = "KeyError"
        /\ store[i].status = "exhausted"
        /\ store[i].attempts >= 1
        /\ store[i].attempts < config.retry_max_attempts


\* this step was a replay of the head of w's batch that the collaborator
\* answered by returning: the callback was applied to the shipment
ReplayReturned(w) ==
    /\ proc[w].pc = "loop"
    /\ proc'[w] # proc[w]
    /\ ~KeyError(shipments, Head(proc[w].batch).shipment_id)
    /\ hist'[Head(proc[w].batch).id].oks = hist[Head(proc[w].batch).id].oks + 1

MarkOps == {"mark_succeeded", "mark_failed", "mark_exhausted"}

\* this step was an iteration of w's loop
Iterated(w) == proc[w].pc = "loop" /\ proc'[w] # proc[w]

\* this step was an invocation of w that found nothing due and returned
ReturnedAtOnce(w) == proc[w].pc = "idle" /\ proc'[w].pc = "idle" /\ proc'[w] # proc[w]

Delay(attempt, backoff_seconds) ==
    compute_next_retry_at(attempt, backoff_seconds, now) - now

\* C20: compute_next_retry_at(attempt, backoff_seconds) is the clock reading
\* plus backoff_seconds * 2^(attempt-1) for every attempt >= 1: backoff_seconds
\* for attempt 1 and twice the previous delay for each further attempt; for a
\* positive backoff_seconds and a fixed clock it is strictly increasing in
\* attempt; base 10 gives 10 s for attempt 1 and 40 s for attempt 3.  The store
\* schedules with it: attempt 1 on creation, the new attempts plus one on
\* mark_failed
C20_ExponentialBackoff ==
    /\ [](\A attempt \in 1..MaxAttempt, b \in 0..MaxBackoffSeconds :
              /\ Delay(1, b) = b
              /\ attempt > 1 => Delay(attempt, b) = 2 * Delay(attempt - 1, b)
              /\ Delay(attempt, b) = b * 2 ^ (attempt - 1)
              /\ (attempt > 1 /\ b > 0) =>
                     compute_next_retry_at(attempt, b, now)
                         > compute_next_retry_at(attempt - 1, b, now))
    /\ [](Delay(1, 10) = 10 /\ Delay(3, 10) = 40)
    /\ [][/\ Enqueued =>
                 store'[Len(store')].next_retry_at = now + Delay(1, backoff)
          /\ \A i \in 1..Len(store) :
                 MarkedFailed(i) =>
                     store'[i].next_retry_at = now + Delay(store'[i].attempts + 1, backoff)]_vars

\* a record rescheduled for the second time, at this clock reading, with a
\* backoff that shows: it waits four times the base delay
C20_Witness ==
    \E i \in 1..Len(store) :
        /\ backoff > 0
        /\ store[i].attempts = 2
        /\ store[i].status = "pending"
        /\ store[i].next_retry_at = now + 4 * backoff


\* C21: get_due_retries claims nothing: the call leaves the table as it was,
\* so the records it handed to one invocation are still pending and due and a
\* second, concurrent invocation is handed them too; both replay the record,
\* and the collaborator's handle_callback runs twice for it in one due period
C21_HandingOutClaimsNothing ==
    [][\A w \in Workers :
          GotBatch(w) =>
              /\ store' = store
              /\ \A k \in 1..Len(proc'[w].batch) :
                     /\ store'[proc'[w].batch[k].id].status = "pending"
                     /\ store'[proc'[w].batch[k].id].next_retry_at <= now'
                     /\ HandedOut(store', now', proc'[w].batch[k].id)]_vars

\* a record replayed twice on one handing-out: the second replay still read
\* attempts = 0, which a replay that came after the first one's mark_* call
\* took effect could not have been handed
C21_Witness ==
    \E i \in 1..Len(store) :
        /\ Replays(hist[i]) = 2
        /\ hist[i].missing = 0
        /\ hist[i].last.attempts = 0


\* this step applied a callback to shipment s: the collaborator returned
Applied(s) == ~KeyError(shipments, s) /\ shipments' = ApplyCallback(shipments, s)

\* this step was an ingress call whose collaborator call returned
IngressApplied == response'.code = 201 /\ \E s \in ShipmentIds : Applied(s)

\* this step was a replay by w whose collaborator call returned
ReplayApplied(w) == Iterated(w) /\ Applied(Head(proc[w].batch).shipment_id)

\* this step was the owner of the shipments deleting one
DeletedByOwner ==
    /\ \E s \in ShipmentIds : shipments' = [shipments EXCEPT ![s] = NoShipment]
    /\ UNCHANGED <<store, proc, response, hist>>

\* this step was an ingress call that ended in an error response
IngressFailed == response' # response /\ response'.code \in {400, 404, 409, 500, 502}

\* C22: the shipments are changed only by a collaborator call that returned, at
\* the ingress or in a replay (and by their owner); an ingress call that ends
\* in an error, a replay whose shipment is missing, a replay that raised and an
\* invocation ended by a storage error before the collaborator returned leave
\* every shipment as it was
C22_OnlyApplyChangesShipments ==
    [][/\ shipments' # shipments =>
              \/ IngressApplied
              \/ \E w \in Workers : ReplayApplied(w)
              \/ DeletedByOwner
       /\ IngressFailed => shipments' = shipments
       /\ \A w \in Workers :
              /\ HandledMissing(w) => shipments' = shipments
              /\ (proc[w].pc = "idle" /\ proc'[w] # proc[w]) => shipments' = shipments
              /\ (Iterated(w) /\ \E i \in 1..Len(store) :
                                     /\ ReplayedNow(i)
                                     /\ hist'[i].last.outcome \in ReplayErrors)
                     => shipments' = shipments]_vars

\* an ingress call has just ended in a storage error, after a replay failed,
\* and the shipment is as it was created
C22_Witness ==
    /\ response.code = 500
    /\ shipments["s1"] = [provider |-> "dhl", status |-> "label_ready"]
    /\ \E i \in 1..Len(store) : hist[i].fails >= 1
    /\ proc["w1"].raised # NULL


\* C23: a storage error raised by store_failed_callback while the ingress
\* enqueues a callback reaches the caller as itself (a 500, no handler takes
\* it) and nothing is stored; it is not swallowed: with a retry store
\* configured, every call reported as a transient failure (502) has stored its
\* record, the last of the table, pending and not yet replayed when reported
C23_EnqueueErrorPropagates ==
    /\ [][/\ (response' # response /\ response'.code = 500) =>
                 store' = store /\ hist' = hist /\ shipments' = shipments
          /\ (response' # response /\ response'.code = 502 /\ retry_store # "none") =>
                 /\ Len(store') = Len(store) + 1
                 /\ response'.enqueued = Len(store')
                 /\ store'[Len(store')].status = "pending"
                 /\ store'[Len(store')].attempts = 0]_vars
    /\ [](response.code = 502 /\ retry_store # "none" =>
              response.enqueued \in 1..Len(store))
    /\ [](response.code = 500 => response.enqueued = 0)

\* a callback was stored and reported as 502, a later one met a storage error
\* and was reported as 500: the table still holds the first only
C23_Witness ==
    /\ response.code = 500 /\ response.enqueued = 0
    /\ retry_store = "sqlalchemy"
    /\ Len(store) = 1
    /\ store[1].status = "pending"
    /\ hist[1].last = NoReplay


\* the fields of a record that are written once, at creation
Identity(r) ==
    [id |-> r.id, shipment_id |-> r.shipment_id, provider_slug |-> r.provider_slug,
     payload |-> r.payload, headers |-> r.headers, created_at |-> r.created_at]

\* tables a and b have the same rows but for row retry_id, which has kept its
\* identity
SameButMarked(a, b, retry_id) ==
    /\ Len(a) = Len(b)
    /\ \A i \in 1..Len(a) :
           /\ Identity(a[i]) = Identity(b[i])
           /\ i # retry_id => a[i] = b[i]

\* C24: no record is ever deleted and the ids only grow (row i keeps id i); the
\* id, shipment_id, provider_slug, payload, headers and created_at of a record
\* never change; mark_succeeded, mark_failed and mark_exhausted leave those
\* fields and every other record as they were
C24_RecordsKeptIdentityFixed ==
    /\ [][/\ Len(store') >= Len(store)
          /\ \A i \in 1..Len(store) :
                 /\ Identity(store'[i]) = Identity(store[i])
                 /\ store'[i].id = i
                 /\ ReplayedNow(i) => SameButMarked(store, store', i)
          /\ Enqueued => /\ Len(store') = Len(store) + 1
                         /\ store'[Len(store')].id = Len(store')
                         /\ \A i \in 1..Len(store) : store'[i] = store[i]]_vars
    /\ [](\A retry_id \in 0..(Len(store) + 1) :
              /\ SameButMarked(store, mark_succeeded(store, retry_id), retry_id)
              /\ SameButMarked(store, mark_failed(store, retry_id, "e", backoff, now), retry_id)
              /\ SameButMarked(store, mark_exhausted(store, retry_id), retry_id))

\* two records with different callbacks, one rescheduled and then replayed
\* with success, the other dead-lettered
C24_Witness ==
    /\ Len(store) = 2
    /\ store[1].payload # store[2].payload
    /\ store[1].status = "succeeded" /\ store[1].attempts >= 1
    /\ store[2].status = "exhausted"
    /\ hist[2].last.calls = <<Call("mark_exhausted", 2, NULL)>>


\* what the ingress passed to store_failed_callback for record i
Stored(i) ==
    [shipment_id |-> hist[i].request.shipment_id,
     payload     |-> hist[i].request.payload,
     headers     |-> hist[i].request.headers]

\* C25: every replay of a record looks up the shipment by the shipment_id that
\* was passed to store_failed_callback for it and gives the collaborator
\* exactly the payload and headers that were passed to store_failed_callback,
\* on the first replay and on every later one
C25_ReplayUsesStoredCallback ==
    /\ [][\A i \in 1..Len(store) :
              ReplayedNow(i) =>
                  /\ hist'[i].request = hist[i].request
                  /\ hist'[i].last.args.shipment_id = Stored(i).shipment_id
                  /\ hist'[i].last.outcome # "KeyError" => hist'[i].last.args = Stored(i)
                  /\ hist'[i].last.outcome = "KeyError" <=>
                         KeyError(shipments, Stored(i).shipment_id)]_vars
    /\ [](\A i \in 1..Len(store) :
              hist[i].last.outcome \in ReplayErrors \cup {"ok"} =>
                  hist[i].last.args = Stored(i))

\* the second of two records with different callbacks, on its third replay
C25_Witness ==
    /\ Len(store) = 2
    /\ hist[1].request.payload # hist[2].request.payload
    /\ Replays(hist[2]) = 3
    /\ hist[2].last.outcome = "ok"
    /\ hist[2].last.args.payload = store[2].payload


----
\* C26: the answer of the callback endpoint is decided by the class of the
\* failure alone: 201 when the callback was applied, 400 for an
\* InvalidCallbackError (a provider slug that does not match the shipment's
\* provider included), 404 for an unknown shipment, 502 for a
\* CommunicationError, 409 for an InvalidTransitionError; a call for an unknown
\* shipment is answered 404 whatever its provider slug and its body, and every
\* other answer was given for a shipment that exists.

\* the status code each failure class is answered with
CodeOf(error) ==
    CASE error = NULL                     -> 201
      [] error = "InvalidCallbackError"   -> 400
      [] error = "ShipmentNotFoundError"  -> 404
      [] error = "CommunicationError"     -> 502
      [] error = "InvalidTransitionError" -> 409
      [] OTHER                            -> -1

C26_OutcomeByFailureClass ==
    [][response' # response =>
          LET r == response'
          IN  /\ r.code = CodeOf(r.error)
              /\ r.error = "ShipmentNotFoundError" =>
                     /\ KeyError(shipments, r.detail)
                     /\ store' = store /\ shipments' = shipments
              /\ r.error # "ShipmentNotFoundError" =>
                     \E id \in ShipmentIds : ~KeyError(shipments, id)
              /\ r.detail = SlugMismatchText =>
                     /\ r.error = "InvalidCallbackError"
                     /\ \E id \in ShipmentIds, slug \in ProviderSlugs :
                            /\ ~KeyError(shipments, id)
                            /\ shipments[id].provider # slug
                     /\ store' = store /\ shipments' = shipments]_vars

\* a shipment that was known, and for which a callback was enqueued, has been
\* deleted, and the next call for it was answered 404
C26_Witness ==
    /\ response = Raise("ShipmentNotFoundError", NotFoundText("s1"))
    /\ KeyError(shipments, "s1")
    /\ \E i \in 1..Len(store) : store[i].shipment_id = "s1"

----
\* C27: with one processor whose invocations follow one another and no other
\* writer, attempts of a record never exceeds retry_max_attempts, and
\* flow.handle_callback is invoked at most retry_max_attempts + 1 times for a
\* record in its whole life: at most once with success, and the invocation that
\* uses up the budget leaves the record terminal.

\* the flow.handle_callback invocations made for record i by replays
FlowCalls(i) == hist[i].fails + hist[i].oks

C27_AttemptsAndCallsBounded ==
    \A i \in 1..Len(store) :
        /\ store[i].attempts <= config.retry_max_attempts
        /\ FlowCalls(i) <= config.retry_max_attempts + 1
        /\ hist[i].oks <= 1
        /\ store[i].attempts <= hist[i].fails
        /\ FlowCalls(i) = config.retry_max_attempts + 1 => Terminal(store[i])

\* a record that failed retry_max_attempts times and succeeded on the last
\* invocation its budget allows
C27_Witness ==
    \E i \in 1..Len(store) :
        /\ config.retry_max_attempts = 3
        /\ store[i].attempts = config.retry_max_attempts
        /\ hist[i].fails = config.retry_max_attempts
        /\ hist[i].oks = 1
        /\ store[i].status = "succeeded"

----
\* C28: with one processor whose invocations follow one another, and ingress
\* calls arriving at any moment, a record that is succeeded or exhausted is left
\* alone for good: no get_due_retries call returns it, no batch in progress
\* holds it, no replay is made for it, and none of its fields changes.

\* record i is among the records the worker has still to replay
InBatch(w, i) == \E k \in 1..Len(proc[w].batch) : proc[w].batch[k].id = i

C28_TerminalLeftAlone ==
    /\ [](\A i \in 1..Len(store) :
              Terminal(store[i]) =>
                  /\ ~HandedOut(store, now, i)
                  /\ \A w \in Workers : ~InBatch(w, i))
    /\ [][\A i \in 1..Len(store) :
              Terminal(store[i]) =>
                  /\ store'[i] = store[i]
                  /\ ~ReplayedNow(i)
                  /\ \A w \in Workers : ~InBatch(w, i)']_vars

\* one record is dead-lettered while the processor is in the middle of a later
\* batch that holds another record, already rescheduled once
C28_Witness ==
    \E i, j \in 1..Len(store) :
        /\ store[i].status = "exhausted"
        /\ store[j].status = "pending"
        /\ hist[j].fails >= 1
        /\ InBatch("w1", j)
        /\ response.code = 201

----
\* C29: mark_failed is atomic with respect to the other mark_failed calls on the
\* same record: however the calls interleave at their awaits (the load, then the
\* commit, each in its own session), every call that completes leaves attempts
\* one above what the table held just before its commit, so that n completed
\* calls add exactly n, and next_retry_at is the one computed for the attempts
\* value the call leaves.

\* this step was the return of the mark_failed call of worker w
MarkFailedReturned(w) == proc[w].pc = "mark_failed" /\ proc'[w].pc # "mark_failed"

C29_MarkFailedAtomic ==
    [][\A w \in Workers :
          MarkFailedReturned(w) =>
              LET i == session[w].retry_id
              IN  /\ store'[i].attempts = store[i].attempts + 1
                  /\ \E t \in 0..now :
                         store'[i].next_retry_at =
                             compute_next_retry_at(store'[i].attempts + 1, backoff, t)]_vars

----
\* C30: a record whose replay succeeded (flow.handle_callback returned) is not
\* rescheduled and not dead-lettered by that pass: also when the mark_succeeded
\* call that follows raises a storage error, the processor calls neither
\* mark_failed nor mark_exhausted for the record, whose attempts, next_retry_at
\* and last_error stay as they were and whose status does not become exhausted.

\* this step was a replay of record i whose flow.handle_callback call returned,
\* mark_succeeded then returning ("ok") or raising ("SQLAlchemyError")
FlowReturnedFor(i) ==
    /\ ReplayedNow(i)
    /\ hist'[i].last.outcome \in {"ok", "SQLAlchemyError"}

C30_SucceededReplayNotFailed ==
    [][\A i \in 1..Len(store) :
          FlowReturnedFor(i) =>
              /\ \A k \in 1..Len(hist'[i].last.calls) :
                     hist'[i].last.calls[k].op \notin {"mark_failed", "mark_exhausted"}
              /\ store'[i].attempts = store[i].attempts
              /\ store'[i].next_retry_at = store[i].next_retry_at
              /\ store'[i].last_error = store[i].last_error
              /\ store'[i].status # "exhausted"]_vars

----
\* C31: during replay the processor does not classify failures: whatever
\* flow.handle_callback raises, a permanent InvalidCallbackError as much as a
\* transient CommunicationError, the one rule on the attempts read decides
\* between mark_failed and mark_exhausted, and the record is left as the same
\* failure of the other class would have left it but for the error text; so a
\* record that fails for good stays pending on its first replay and is
\* dead-lettered only when its attempts have reached retry_max_attempts.

\* the other failure class
OtherClass(exc) ==
    IF exc = "InvalidCallbackError" THEN "CommunicationError" ELSE "InvalidCallbackError"

\* the table with the error text of record i left out of the comparison
SaveLastError(st, i) == [st EXCEPT ![i].last_error = NULL]

C31_ReplayFailuresNotClassified ==
    [][\A i \in 1..Len(store) :
          (ReplayedNow(i) /\ hist'[i].last.outcome \in ReplayErrors) =>
              LET l     == hist'[i].last
                  retry == [RetryDict(store[i]) EXCEPT !.attempts = l.attempts]
                  other == RecordCalls(retry, OtherClass(l.outcome),
                                       config.retry_max_attempts)
              IN  /\ Len(l.calls) = 1
                  /\ l.calls[1].op = other[1].op
                  /\ l.calls[1].op = IF l.attempts >= config.retry_max_attempts
                                     THEN "mark_exhausted"
                                     ELSE "mark_failed"
                  /\ SaveLastError(store', i)
                         = SaveLastError(StoreCalls(store, other, backoff, now), i)
                  /\ l.attempts = 0 => store'[i].status = "pending"
                  /\ store'[i].status = "exhausted" =>
                         store[i].attempts >= config.retry_max_attempts]_vars

\* a record whose replays failed for good each time: rescheduled three times,
\* the error text of the last reschedule kept, dead-lettered by the fourth
C31_Witness ==
    \E i \in 1..Len(store) :
        /\ config.retry_max_attempts = 3
        /\ OnlyFailed(i)
        /\ hist[i].fails = 4
        /\ hist[i].last.outcome = "InvalidCallbackError"
        /\ store[i].last_error = ErrorText("InvalidCallbackError")
        /\ store[i].status = "exhausted"

----
\* C32: for a fixed positive backoff_seconds b the delays scheduled for one
\* record grow by doubling: creation schedules the record b after the clock
\* reading, and the k-th mark_failed (k >= 1, calls made one after another)
\* schedules it b * 2^k after the clock reading, twice the delay scheduled
\* before it (twice b for the first), so each delay is longer than the last
\* and the due time moves forward.

\* the delay the k-th mark_failed schedules; DelayAfter(0, b) is creation's
DelayAfter(k, b) == b * 2 ^ k

C32_DelaysDouble ==
    [][backoff > 0 =>
          /\ Enqueued =>
                 store'[Len(store')].next_retry_at - now = DelayAfter(0, backoff)
          /\ \A i \in 1..Len(store) :
                 MarkedFailed(i) =>
                     LET k == hist'[i].fails
                         d == store'[i].next_retry_at - now
                     IN  /\ k >= 1
                         /\ k = store'[i].attempts
                         /\ d = DelayAfter(k, backoff)
                         /\ d = 2 * DelayAfter(k - 1, backoff)
                         /\ d > DelayAfter(k - 1, backoff)
                         /\ k = 1 =>
                                d = 2 * (store[i].next_retry_at - store[i].created_at)
                         /\ store'[i].next_retry_at > store[i].next_retry_at]_vars

\* a record created with delay b, rescheduled with 2b and then with 4b
C32_Witness ==
    \E i \in 1..Len(store) :
        /\ backoff = 1
        /\ OnlyFailed(i)
        /\ hist[i].fails = 2
        /\ store[i].created_at = 0
        /\ store[i].next_retry_at - now = DelayAfter(2, backoff)

----
\* C33: mark_succeeded and mark_exhausted change nothing but the status of the
\* record addressed: attempts, last_error and next_retry_at keep their values,
\* so the last_error of a dead-lettered record is the error text of its last
\* mark_failed, or null when it never had one, and not the error of the replay
\* that exhausted it; mark_failed with an unknown retry_id leaves the table as
\* it is.

\* the columns other than status are the same in both tables, row by row
SameButStatus(a, b) ==
    /\ Len(a) = Len(b)
    /\ \A i \in 1..Len(a) :
           \A f \in DOMAIN a[i] \ {"status"} : a[i][f] = b[i][f]

\* this step was a replay of record i recorded by the one store call op
RecordedBy(i, op) ==
    /\ ReplayedNow(i)
    /\ Len(hist'[i].last.calls) = 1
    /\ hist'[i].last.calls[1].op = op

C33_MarksChangeStatusOnly ==
    /\ [](\A retry_id \in 0..(Len(store) + 1) :
              /\ SameButStatus(mark_succeeded(store, retry_id), store)
              /\ SameButStatus(mark_exhausted(store, retry_id), store)
              /\ \A i \in 1..Len(store) :
                     i # retry_id =>
                         /\ mark_succeeded(store, retry_id)[i] = store[i]
                         /\ mark_exhausted(store, retry_id)[i] = store[i]
              /\ ~HasRow(store, retry_id) =>
                     \A exc \in ReplayErrors :
                         mark_failed(store, retry_id, ErrorText(exc), backoff, now) = store)
    /\ [][\A i \in 1..Len(store) :
              (RecordedBy(i, "mark_succeeded") \/ RecordedBy(i, "mark_exhausted")) =>
                  /\ store'[i].attempts = store[i].attempts
                  /\ store'[i].last_error = store[i].last_error
                  /\ store'[i].next_retry_at = store[i].next_retry_at
                  /\ SameButStatus(store', store)]_vars
    /\ [](\A i \in 1..Len(store) :
              store[i].status = "exhausted" =>
                  IF store[i].attempts = 0
                  THEN store[i].last_error = NULL
                  ELSE store[i].last_error \in {ErrorText(exc) : exc \in ReplayErrors})

\* a record rescheduled after an InvalidCallbackError and dead-lettered by a
\* CommunicationError: its last_error is still the text of the former
C33_Witness ==
    \E i \in 1..Len(store) :
        /\ store[i].status = "exhausted"
        /\ hist[i].last.outcome = "CommunicationError"
        /\ hist[i].last.calls = <<Call("mark_exhausted", i, NULL)>>
        /\ store[i].last_error = ErrorText("InvalidCallbackError")

----
\* C34: of the retry settings of SendparcelConfig the retry behaviour depends
\* on retry_max_attempts alone: whatever retry_enabled and
\* retry_backoff_seconds are, a communication failure at the ingress is
\* enqueued when a retry store is there, the record is scheduled with the
\* backoff_seconds of the store, and a failed replay is recorded by the call the
\* attempts read and retry_max_attempts decide; the configuration itself is
\* never written.

\* this step was an ingress call answered 502
AnsweredBadGateway == response' # response /\ response'.code = 502

C34_OnlyMaxAttemptsIsRead ==
    [][/\ config' = config
       /\ (AnsweredBadGateway /\ retry_store # "none") =>
              /\ Enqueued
              /\ store' = enqueue_callback_retry(
                              retry_store, store,
                              store'[Len(store')].provider_slug,
                              store'[Len(store')].shipment_id,
                              store'[Len(store')].payload,
                              store'[Len(store')].headers, backoff, now)
       /\ Enqueued =>
              store'[Len(store')].next_retry_at
                  = compute_next_retry_at(1, backoff, now)
       /\ \A i \in 1..Len(store) :
              /\ MarkedFailed(i) =>
                     store'[i].next_retry_at
                         = compute_next_retry_at(store'[i].attempts + 1, backoff, now)
              /\ (ReplayedNow(i) /\ hist'[i].last.outcome \in ReplayErrors) =>
                     /\ hist'[i].last.calls =
                            FailureCalls([RetryDict(store[i]) EXCEPT
                                              !.attempts = hist'[i].last.attempts],
                                         hist'[i].last.outcome,
                                         config.retry_max_attempts)
                     /\ store' = StoreCalls(store, hist'[i].last.calls, backoff, now)]_vars

\* retries switched off in the configuration and a configured backoff of 2: a
\* callback was enqueued all the same and has been rescheduled twice with the
\* store's backoff of 1, so that it waits 4 and not 8
C34_Witness ==
    \E i \in 1..Len(store) :
        /\ ~config.retry_enabled
        /\ config.retry_backoff_seconds = 2
        /\ backoff = 1
        /\ store[i].status = "pending"
        /\ store[i].attempts = 2
        /\ store[i].next_retry_at = now + 4

----
\* C35: in the example's delivery simulator sim_advance changes the simulated
\* status of a shipment only to a status that _NEXT_STATUSES lists for its
\* current status, namely the one posted, and leaves it as it is otherwise, the
\* other shipments in every case; so delivered, cancelled, failed, returned and
\* new, the status of a shipment the simulator has never seen, have no outgoing
\* sim_advance transition.

\* the statuses _NEXT_STATUSES has no entry for
SimFinal == {"delivered", "cancelled", "failed", "returned", "new"}

C35_SimAdvanceFollowsNextStatuses ==
    /\ [](\A sid \in SimShipmentIds, new_status \in ShipmentStatuses \cup {""} :
              LET current == get_sim_status(sim_state, sid)
                  after   == sim_advance(sim_state, sid, new_status)
              IN  /\ \A other \in SimShipmentIds \ {sid} : after[other] = sim_state[other]
                  /\ IF In(new_status, get_next_statuses(current))
                     THEN /\ after[sid] = new_status
                          /\ current \in DOMAIN _NEXT_STATUSES
                          /\ In(after[sid], _NEXT_STATUSES[current])
                     ELSE after = sim_state
                  /\ current \in SimFinal => after = sim_state
                  /\ get_sim_status(after, sid) # "new" => sim_state[sid] # NULL)
    /\ [](\A current \in ShipmentStatuses :
              (current \in SimFinal) <=> (get_next_statuses(current) = <<>>))
    /\ [][\A sid \in SimShipmentIds :
              (sim_state'[sid] # sim_state[sid]
                   /\ sim_state'[sid] \notin {"created", "cancelled"}) =>
                  In(sim_state'[sid], get_next_statuses(get_sim_status(sim_state, sid)))]_vars

\* one shipment advanced all the way to delivered, one stopped on the way, one
\* never seen
C35_Witness ==
    /\ sim_state["1"] = "delivered"
    /\ sim_state["2"] = "out_for_delivery"
    /\ sim_state["3"] = NULL

====
